---- MODULE Spec2Model ----
(***************************************************************************)
(* Demo HTTP service of apps/web-app/app.py: a Flask application served by  *)
(* app.run (the threaded development server), with Prometheus counters      *)
(* shared by all request threads.  One request is one server thread; its    *)
(* position in before_request / handler / after_request is its pc.          *)
(***************************************************************************)
EXTENDS Integers, Sequences, FiniteSets, TLC

\* ---------------------------------------------------------------- bounds
MaxRequests == 2
MaxTime == 1
MaxSoloTime == 6

\* ------------------------------------------------------ program constants
DefaultDelay == 5
DefaultDuration == 10
DefaultThreads == 2
CpuSampleInterval == 1
ExitCode == 1

Requests == 1..MaxRequests
NoOwner == 0

\* ------------------------------------------------- query value conversion
\* request.args.get(key, default, type=int): the value is converted with
\* int(); a ValueError makes get() return the default.
Digits == {"0", "1", "2", "3", "4", "5", "6", "7", "8", "9"}

DigitVal(c) ==
    CASE c = "0" -> 0 [] c = "1" -> 1 [] c = "2" -> 2 [] c = "3" -> 3
      [] c = "4" -> 4 [] c = "5" -> 5 [] c = "6" -> 6 [] c = "7" -> 7
      [] c = "8" -> 8 [] c = "9" -> 9

RECURSIVE LStrip(_)
LStrip(s) == IF s # <<>> /\ Head(s) = " " THEN LStrip(Tail(s)) ELSE s

RECURSIVE RStrip(_)
RStrip(s) ==
    IF s # <<>> /\ s[Len(s)] = " " THEN RStrip(SubSeq(s, 1, Len(s) - 1)) ELSE s

Strip(s) == RStrip(LStrip(s))

HasSign(s) == s # <<>> /\ Head(s) \in {"-", "+"}

Unsigned(s) == IF HasSign(s) THEN Tail(s) ELSE s

\* int() accepts decimal digits, single underscores only between digits.
IsDigits(b) ==
    /\ b # <<>>
    /\ \A i \in 1..Len(b) : b[i] \in Digits \cup {"_"}
    /\ b[1] \in Digits
    /\ b[Len(b)] \in Digits
    /\ \A i \in 1..(Len(b) - 1) : ~(b[i] = "_" /\ b[i + 1] = "_")

IsIntLiteral(s) == IsDigits(Unsigned(Strip(s)))

RECURSIVE Magnitude(_, _)
Magnitude(b, acc) ==
    IF b = <<>> THEN acc
    ELSE IF Head(b) = "_" THEN Magnitude(Tail(b), acc)
    ELSE Magnitude(Tail(b), 10 * acc + DigitVal(Head(b)))

IntOf(s) ==
    LET t == Strip(s)
        m == Magnitude(Unsigned(t), 0)
    IN  IF HasSign(t) /\ Head(t) = "-" THEN 0 - m ELSE m

ArgsGet(args, key, default) ==
    IF key \in DOMAIN args /\ IsIntLiteral(args[key]) THEN IntOf(args[key])
    ELSE default

\* ------------------------------------------------------------- routing
\* url_map built by the @app.route decorators: path -> endpoint (the view
\* function's name).  A path with no rule has no endpoint.
UnknownPath == "/nope"

Routes ==
    { "/", "/health", "/info", "/metrics", "/system", "/crash", "/slow",
      "/cpu-load", UnknownPath }

NoEndpoint == "None"

Endpoint(route) ==
    CASE route = "/" -> "home"
      [] route = "/health" -> "health_check"
      [] route = "/info" -> "app_info"
      [] route = "/metrics" -> "metrics"
      [] route = "/system" -> "system_info"
      [] route = "/crash" -> "crash_app"
      [] route = "/slow" -> "slow_endpoint"
      [] route = "/cpu-load" -> "cpu_load"
      [] OTHER -> NoEndpoint

\* request.endpoint or 'unknown'
EndpointLabel(route) ==
    IF Endpoint(route) = NoEndpoint THEN "unknown" ELSE Endpoint(route)

ArgKeys(route) ==
    CASE route = "/slow" -> {"delay"}
      [] route = "/cpu-load" -> {"duration", "threads"}
      [] OTHER -> {}

Statuses == {200, 404, 500}

\* ------------------------------------------------------------- metrics
EventTypes == {"page_view", "crash_simulation", "slow_request", "cpu_load_test"}

ACTIVE_USERS == <<"active_users_total">>

REQUEST_DURATION == <<"http_request_duration_seconds">>

CUSTOM_BUSINESS_METRIC(event_type) == <<"business_events_total", event_type>>

REQUEST_COUNT(method, endpoint, status) ==
    <<"http_requests_total", method, endpoint, status>>

RequestCountKeys ==
    { REQUEST_COUNT("GET", EndpointLabel(p), s) : p \in Routes, s \in Statuses }

MetricKeys ==
    {ACTIVE_USERS, REQUEST_DURATION}
    \cup { CUSTOM_BUSINESS_METRIC(e) : e \in EventTypes }
    \cup RequestCountKeys

\* ------------------------------------------------------- configuration
EnvNames == {"APP_VERSION", "APP_NAME", "ENVIRONMENT", "DEBUG"}

Unset == "<unset>"

\* os.getenv(name, default)
Getenv(env, name, default) == IF env[name] = Unset THEN default ELSE env[name]

\* str.lower() on the values DEBUG takes here
Lower(s) ==
    CASE s = "TRUE" -> "true"
      [] s = "True" -> "true"
      [] s = "FALSE" -> "false"
      [] OTHER -> s

DebugFlag(env) == Lower(Getenv(env, "DEBUG", "false")) = "true"

ThreadedOff == FALSE

\* app.run(host, port, debug): the development server handles each request
\* on its own thread (threaded defaults to True).
Threaded == TRUE

PropagateAlways(dbg) == TRUE

\* Flask re-raises an unhandled exception instead of answering 500 itself
\* when PROPAGATE_EXCEPTIONS is unset and the app is in debug mode.
PropagateExceptions(dbg) == dbg


\* ------------------------------------------------------------- inputs
QueryArgs(keys, raws) == UNION { [S -> raws] : S \in SUBSET keys }

\* What a client may send: GET <route>?<args>; sys_fail says whether psutil
\* fails while this request samples the host.
Inputs(routes, raws) ==
    UNION { { [route |-> p, args |-> a, sys_fail |-> f] :
                a \in QueryArgs(ArgKeys(p), raws),
                f \in IF p = "/system" THEN BOOLEAN ELSE {FALSE} } :
            p \in routes }

CoreRaw == { <<"1">>, <<"-", "1">> }

SoloRaw == { <<"0">>, <<"1">>, <<"-", "1">>, <<"a">>, <<" ", "2">> }

CoreInputs == Inputs(Routes, CoreRaw)

SoloInputs == Inputs({"/slow", "/cpu-load"}, SoloRaw)

ConfigInputs == Inputs({"/", "/health", "/info"}, {})

HomeInputs == Inputs({"/", "/health"}, {})

ProbeRaw == { <<"0">>, <<"1">> }

ProbeInputs == Inputs({"/slow", "/metrics"}, ProbeRaw)

\* ---------------------------------------------------------------- state
VARIABLES
    alive,          \* the server process is running
    exit_status,    \* its exit status once it is not
    environ,        \* os.environ
    APP_VERSION,    \* module global, line 32
    APP_NAME,       \* module global, line 33
    debug,          \* app.debug, set by app.run
    now,            \* time.time(), whole seconds
    value,          \* metric child -> its value
    lock,           \* metric child -> thread holding its mutex
    req             \* request -> the state of the thread serving it

vars ==
    <<alive, exit_status, environ, APP_VERSION, APP_NAME, debug, now, value,
      lock, req>>

Config == <<environ, APP_VERSION, APP_NAME, debug>>

Process == <<alive, exit_status>>

NoBody == [name |-> "", version |-> "", environment |-> ""]

NewRequest ==
    [ pc |-> "new", route |-> "/", args |-> <<>>, sys_fail |-> FALSE,
      start_time |-> 0, elapsed |-> 0, status |-> 0, tmp |-> 0, wake |-> 0,
      workers |-> <<>>, joined |-> 0, body |-> NoBody ]

Terminal == {"responded", "debugger_responded", "dropped"}

InFlight(r) == req[r].pc \notin ({"new"} \cup Terminal)

\* delay, duration, threads: locals of the views, read once from request.args
Delay(r) == ArgsGet(req[r].args, "delay", DefaultDelay)

Duration(r) == ArgsGet(req[r].args, "duration", DefaultDuration)

Threads(r) == ArgsGet(req[r].args, "threads", DefaultThreads)

EnvValues(n) ==
    CASE n = "APP_VERSION" -> {Unset, "2.0.0"}
      [] n = "APP_NAME" -> {Unset, "demo"}
      [] n = "ENVIRONMENT" -> {Unset, "production"}
      [] n = "DEBUG" -> {Unset, "True"}

DefaultEnvs ==
    { [n \in EnvNames |-> IF n = "DEBUG" THEN d ELSE Unset] : d \in EnvValues("DEBUG") }

AllEnvs == { e \in [EnvNames -> UNION { EnvValues(n) : n \in EnvNames }] :
               \A n \in EnvNames : e[n] \in EnvValues(n) }

InitWith(envs) ==
    /\ alive = TRUE
    /\ exit_status = 0
    /\ environ \in envs
    /\ APP_VERSION = Getenv(environ, "APP_VERSION", "1.0.0")
    /\ APP_NAME = Getenv(environ, "APP_NAME", "infrastructure-learning-app")
    /\ debug = DebugFlag(environ)
    /\ now = 0
    /\ value = [k \in MetricKeys |-> 0]
    /\ lock = [k \in MetricKeys |-> NoOwner]
    /\ req = [r \in Requests |-> NewRequest]

Init == InitWith(DefaultEnvs)

Same == UNCHANGED <<Process, Config, now, value, lock>>

\* ------------------------------------------------------------ the clock
Tick(limit) ==
    /\ alive
    /\ now < limit
    /\ now' = now + 1
    /\ UNCHANGED <<Process, Config, value, lock, req>>

\* os.environ is a process-wide mutable mapping: code running in the process
\* after the module was imported can set a variable.
EnvChange ==
    /\ alive
    /\ \E n \in EnvNames :
         \E v \in EnvValues(n) \ {environ[n]} :
           environ' = [environ EXCEPT ![n] = v]
    /\ UNCHANGED <<Process, APP_VERSION, APP_NAME, debug, now, value, lock, req>>

\* ------------------------------------------------- request life cycle
\* The server accepts a connection and hands the request to a thread; a
\* single-threaded server accepts the next one after finishing the last.
CanAccept(r) ==
    /\ alive
    /\ req[r].pc = "new"
    /\ \A q \in Requests : q < r => req[q].pc # "new"
    /\ Threaded \/ \A q \in Requests : ~InFlight(q)

Accept(r, inputs) ==
    /\ CanAccept(r)
    /\ \E inp \in inputs :
         req' = [req EXCEPT ![r].pc = "before_request", ![r].route = inp.route,
                            ![r].args = inp.args, ![r].sys_fail = inp.sys_fail]
    /\ Same

before_request(r) ==
    /\ alive
    /\ req[r].pc = "before_request"
    /\ req' = [req EXCEPT ![r].pc = "dispatch", ![r].start_time = now]
    /\ Same

RaisedSkipsHook(r) ==
    [req EXCEPT ![r].pc = "responded", ![r].status = 500, ![r].start_time = 0,
                ![r].wake = 0]

\* Flask.handle_exception for an exception a view raised: the 500 response
\* goes through after_request, unless the exception is propagated to the
\* server's debugger, which answers 500 itself.
Raised(r) ==
    IF PropagateExceptions(debug)
    THEN [req EXCEPT ![r].pc = "debugger_responded", ![r].status = 500,
                     ![r].start_time = 0, ![r].wake = 0]
    ELSE [req EXCEPT ![r].pc = "after_request", ![r].status = 500, ![r].wake = 0]

\* No rule matches: NotFound becomes a 404 response, which still passes
\* through after_request.
NotFound(r) ==
    /\ alive
    /\ req[r].pc = "dispatch"
    /\ Endpoint(req[r].route) = NoEndpoint
    /\ req' = [req EXCEPT ![r].pc = "after_request", ![r].status = 404]
    /\ Same

LockIgnored(owner) == TRUE

\* Counter.inc(): with self._lock: self._value += 1
LockFree(owner) == owner = NoOwner

IncEnter(r, at, key, to) ==
    /\ alive
    /\ req[r].pc = at
    /\ LockFree(lock[key])
    /\ lock' = [lock EXCEPT ![key] = r]
    /\ req' = [req EXCEPT ![r].pc = to, ![r].tmp = value[key]]
    /\ UNCHANGED <<Process, Config, now, value>>

IncExit(r, at, key, to) ==
    /\ alive
    /\ req[r].pc = at
    /\ value' = [value EXCEPT ![key] = req[r].tmp + 1]
    /\ lock' = [lock EXCEPT ![key] = NoOwner]
    /\ req' = [req EXCEPT ![r].pc = to, ![r].tmp = 0]
    /\ UNCHANGED <<Process, Config, now>>

\* after_request(response), lines 40-43: duration and its observation
after_request(r) ==
    /\ alive
    /\ req[r].pc = "after_request"
    /\ req' = [req EXCEPT ![r].pc = "request_count",
                          ![r].elapsed = now - req[r].start_time,
                          ![r].start_time = 0]
    /\ value' = [value EXCEPT ![REQUEST_DURATION] = @ + 1]
    /\ UNCHANGED <<Process, Config, now, lock>>

RequestCountKey(r) ==
    REQUEST_COUNT("GET", EndpointLabel(req[r].route), req[r].status)

\* lines 44-48
RequestCountEnter(r) ==
    IncEnter(r, "request_count", RequestCountKey(r), "request_count_locked")

\* ... then the log line (51), and the response goes back to the client
RequestCountExit(r) ==
    IncExit(r, "request_count_locked", RequestCountKey(r), "responded")

\* --------------------------------------------------------------- views
At(r, route) == alive /\ req[r].pc = "dispatch" /\ req[r].route = route

Respond(r, status, body) ==
    [req EXCEPT ![r].pc = "after_request", ![r].status = status,
                ![r].body = body, ![r].wake = 0]

\* home(), lines 55-105
HomeActiveUsersEnter(r) ==
    /\ req[r].route = "/"
    /\ IncEnter(r, "dispatch", ACTIVE_USERS, "home_active_users_locked")

HomeActiveUsersExit(r) ==
    IncExit(r, "home_active_users_locked", ACTIVE_USERS, "home_page_view")

HomeEvent == "page_view"

HomePageViewEnter(r) ==
    IncEnter(r, "home_page_view", CUSTOM_BUSINESS_METRIC(HomeEvent),
             "home_page_view_locked")

HomePageViewExit(r) ==
    IncExit(r, "home_page_view_locked", CUSTOM_BUSINESS_METRIC(HomeEvent),
            "home_render")

\* os.getenv('ENVIRONMENT', 'development'), evaluated inside the views
EnvironmentName(env) == Getenv(env, "ENVIRONMENT", "development")

HomeRender(r) ==
    /\ alive
    /\ req[r].pc = "home_render"
    /\ req' = Respond(r, 200, [name |-> APP_NAME, version |-> APP_VERSION,
                               environment |-> EnvironmentName(environ)])
    /\ Same

\* health_check(), lines 108-115
health_check(r) ==
    /\ At(r, "/health")
    /\ req' = Respond(r, 200, [name |-> "", version |-> APP_VERSION,
                               environment |-> ""])
    /\ Same

\* app_info(), lines 118-127
app_info(r) ==
    /\ At(r, "/info")
    /\ req' = Respond(r, 200, [name |-> APP_NAME, version |-> APP_VERSION,
                               environment |-> EnvironmentName(environ)])
    /\ Same

\* metrics(), lines 130-132: the body is the exposition of `value`
metrics(r) ==
    /\ At(r, "/metrics")
    /\ req' = Respond(r, 200, NoBody)
    /\ Same

\* system_info(), lines 135-150: psutil.cpu_percent(interval=1) sleeps for
\* the sampling window; a psutil call may raise.
SystemSampleBegin(r) ==
    /\ At(r, "/system")
    /\ req' = [req EXCEPT ![r].pc = "system_sampling",
                          ![r].wake = now + CpuSampleInterval]
    /\ Same

SystemSampleEnd(r) ==
    /\ alive
    /\ req[r].pc = "system_sampling"
    /\ ~(now < req[r].wake)
    /\ req' = IF req[r].sys_fail THEN Raised(r) ELSE Respond(r, 200, NoBody)
    /\ Same

CrashEventPasted == "page_view"

\* crash_app(), lines 153-158
CrashEvent == "crash_simulation"

CrashIncEnter(r) ==
    /\ req[r].route = "/crash"
    /\ IncEnter(r, "dispatch", CUSTOM_BUSINESS_METRIC(CrashEvent), "crash_locked")

CrashIncExit(r) ==
    IncExit(r, "crash_locked", CUSTOM_BUSINESS_METRIC(CrashEvent), "crash_exit")

\* sys.exit(1) raises SystemExit in the thread that serves the request.
\* It is no Exception, so Flask neither answers nor runs after_request.
\* On a server thread it ends that thread alone; on the main thread of a
\* single-threaded server it ends serve_forever and the process.
SystemExitEndsProcess == ~Threaded

CrashExit(r) ==
    /\ alive
    /\ req[r].pc = "crash_exit"
    /\ req' = [req EXCEPT ![r].pc = "dropped", ![r].start_time = 0]
    /\ IF SystemExitEndsProcess
       THEN alive' = FALSE /\ exit_status' = ExitCode
       ELSE UNCHANGED Process
    /\ UNCHANGED <<Config, now, value, lock>>

\* slow_endpoint(), lines 161-171
SlowEvent == "slow_request"

SlowIncEnter(r) ==
    /\ req[r].route = "/slow"
    /\ IncEnter(r, "dispatch", CUSTOM_BUSINESS_METRIC(SlowEvent), "slow_locked")

SlowIncExit(r) ==
    IncExit(r, "slow_locked", CUSTOM_BUSINESS_METRIC(SlowEvent), "slow_sleep")

WakeTimeNow(t, secs) == t

WakeTime(t, secs) == t + secs

\* time.sleep(delay) raises ValueError for a negative delay.
SlowSleep(r) ==
    /\ alive
    /\ req[r].pc = "slow_sleep"
    /\ req' = IF Delay(r) < 0
              THEN Raised(r)
              ELSE [req EXCEPT ![r].pc = "sleeping",
                               ![r].wake = WakeTime(now, Delay(r))]
    /\ Same

SlowWake(r) ==
    /\ alive
    /\ req[r].pc = "sleeping"
    /\ ~(now < req[r].wake)
    /\ req' = Respond(r, 200, NoBody)
    /\ Same

\* cpu_load(), lines 174-205
CpuEvent == "cpu_load_test"

CpuIncEnter(r) ==
    /\ req[r].route = "/cpu-load"
    /\ IncEnter(r, "dispatch", CUSTOM_BUSINESS_METRIC(CpuEvent), "cpu_locked")

CpuIncExit(r) ==
    IncExit(r, "cpu_locked", CUSTOM_BUSINESS_METRIC(CpuEvent), "cpu_spawn")

\* len(range(n))
RangeLen(n) == IF n > 0 THEN n ELSE 0

\* for i in range(threads): t = Thread(...); t.start(); threads_list.append(t)
CpuSpawn(r) ==
    /\ alive
    /\ req[r].pc = "cpu_spawn"
    /\ Len(req[r].workers) < RangeLen(Threads(r))
    /\ req' = [req EXCEPT ![r].workers =
                 Append(@, [pc |-> "started", end_time |-> 0])]
    /\ Same

CpuSpawnDone(r) ==
    /\ alive
    /\ req[r].pc = "cpu_spawn"
    /\ ~(Len(req[r].workers) < RangeLen(Threads(r)))
    /\ req' = [req EXCEPT ![r].pc = "cpu_join"]
    /\ Same

EndTime(t, duration) == t + duration

\* cpu_intensive_task(): end_time = time.time() + duration
WorkerBegin(r, i) ==
    /\ alive
    /\ i \in DOMAIN req[r].workers
    /\ req[r].workers[i].pc = "started"
    /\ req' = [req EXCEPT ![r].workers[i] =
                 [pc |-> "running", end_time |-> EndTime(now, Duration(r))]]
    /\ Same

\* while time.time() < end_time: ...   (the loop ends when the test fails)
WorkerEnd(r, i) ==
    /\ alive
    /\ i \in DOMAIN req[r].workers
    /\ req[r].workers[i].pc = "running"
    /\ ~(now < req[r].workers[i].end_time)
    /\ req' = [req EXCEPT ![r].workers[i].pc = "finished"]
    /\ Same

JoinableAlways(w) == TRUE

Joinable(w) == w.pc = "finished"

\* for t in threads_list: t.join()
CpuJoin(r) ==
    /\ alive
    /\ req[r].pc = "cpu_join"
    /\ req[r].joined < Len(req[r].workers)
    /\ Joinable(req[r].workers[req[r].joined + 1])
    /\ req' = [req EXCEPT ![r].joined = @ + 1]
    /\ Same

CpuRespond(r) ==
    /\ alive
    /\ req[r].pc = "cpu_join"
    /\ ~(req[r].joined < Len(req[r].workers))
    /\ req' = Respond(r, 200, NoBody)
    /\ Same

\* ------------------------------------------------------- specification
Hooks(r) ==
    \/ before_request(r)
    \/ after_request(r)
    \/ RequestCountEnter(r)
    \/ RequestCountExit(r)

Home(r) ==
    \/ HomeActiveUsersEnter(r)
    \/ HomeActiveUsersExit(r)
    \/ HomePageViewEnter(r)
    \/ HomePageViewExit(r)
    \/ HomeRender(r)

System(r) == SystemSampleBegin(r) \/ SystemSampleEnd(r)

Crash(r) == CrashIncEnter(r) \/ CrashIncExit(r) \/ CrashExit(r)

Slow(r) == SlowIncEnter(r) \/ SlowIncExit(r) \/ SlowSleep(r) \/ SlowWake(r)

CpuLoad(r) ==
    \/ CpuIncEnter(r)
    \/ CpuIncExit(r)
    \/ CpuSpawn(r)
    \/ CpuSpawnDone(r)
    \/ \E i \in DOMAIN req[r].workers : WorkerBegin(r, i)
    \/ \E i \in DOMAIN req[r].workers : WorkerEnd(r, i)
    \/ CpuJoin(r)
    \/ CpuRespond(r)

\* Every route, concurrent requests.
Next ==
    \/ Tick(MaxTime)
    \/ \E r \in Requests : Accept(r, CoreInputs)
    \/ \E r \in Requests : Hooks(r)
    \/ \E r \in Requests : NotFound(r)
    \/ \E r \in Requests : Home(r)
    \/ \E r \in Requests : health_check(r)
    \/ \E r \in Requests : app_info(r)
    \/ \E r \in Requests : metrics(r)
    \/ \E r \in Requests : System(r)
    \/ \E r \in Requests : Crash(r)
    \/ \E r \in Requests : Slow(r)
    \/ \E r \in Requests : CpuLoad(r)

Spec == Init /\ [][Next]_vars

\* One /slow or /cpu-load request, every query value, long enough for the
\* defaults to run out.
NextSolo ==
    \/ Tick(MaxSoloTime)
    \/ Accept(1, SoloInputs)
    \/ Hooks(1)
    \/ Slow(1)
    \/ CpuLoad(1)

SpecSolo == Init /\ [][NextSolo]_vars

\* The routes that report the configuration, under every environment and
\* with the environment changing while the process runs.
NextConfig ==
    \/ EnvChange
    \/ \E r \in Requests : Accept(r, ConfigInputs)
    \/ \E r \in Requests : Hooks(r)
    \/ \E r \in Requests : Home(r)
    \/ \E r \in Requests : health_check(r)
    \/ \E r \in Requests : app_info(r)

SpecConfig == InitWith(AllEnvs) /\ [][NextConfig]_vars

\* Concurrent page views.
NextHome ==
    \/ \E r \in Requests : Accept(r, HomeInputs)
    \/ \E r \in Requests : Hooks(r)
    \/ \E r \in Requests : Home(r)
    \/ \E r \in Requests : health_check(r)

SpecHome == Init /\ [][NextHome]_vars

\* /slow requests with concurrent probes.
NextProbe ==
    \/ Tick(MaxTime)
    \/ \E r \in Requests : Accept(r, ProbeInputs)
    \/ \E r \in Requests : Hooks(r)
    \/ \E r \in Requests : Slow(r)
    \/ \E r \in Requests : metrics(r)

SpecProbe == Init /\ [][NextProbe]_vars

\* ------------------------------------------------------------- helpers
RECURSIVE SumValues(_)
SumValues(keys) ==
    IF keys = {} THEN 0
    ELSE LET k == CHOOSE x \in keys : TRUE
         IN  value[k] + SumValues(keys \ {k})

\* http_requests_total summed over all label combinations
HttpRequestsTotal == SumValues(RequestCountKeys)

Hooked == {"request_count", "request_count_locked", "responded"}

Answered == {"after_request"} \cup Hooked

\* The view of this request raises an exception.
Raises(r) ==
    \/ req[r].route = "/system" /\ req[r].sys_fail
    \/ req[r].route = "/slow" /\ Delay(r) < 0

Quiet == \A r \in Requests : ~InFlight(r)

Arrived == { r \in Requests : req[r].pc # "new" }

\* -------------------------------------------------------------- claims
\* C1 (as stated): once N requests to any routes have been handled,
\* http_requests_total summed over all labels has grown by exactly N.
C1_EveryRequestCounted ==
    Quiet => HttpRequestsTotal = Cardinality(Arrived)

\* C1 (amended): http_requests_total summed over all labels equals the number
\* of requests whose response passed through after_request, and those are all
\* requests except the /crash ones (no response) and, in debug mode, the ones
\* whose view raises (the debugger answers them).
C1_ResponsesCounted ==
    /\ HttpRequestsTotal = Cardinality({ r \in Requests : req[r].pc = "responded" })
    /\ \A r \in Requests :
         req[r].pc \in Terminal =>
           ( req[r].pc = "responded"
               <=> ~(req[r].route = "/crash" \/ (debug /\ Raises(r))) )

C1_Witness ==
    /\ Quiet
    /\ Cardinality(Arrived) = 2
    /\ \E r \in Requests : req[r].route = "/crash" /\ req[r].pc = "dropped"
    /\ \E r \in Requests : req[r].route = UnknownPath /\ req[r].pc = "responded"
    /\ HttpRequestsTotal = 1

HomePastActiveUsers(r) ==
    /\ req[r].route = "/"
    /\ req[r].pc \in {"home_page_view", "home_page_view_locked", "home_render"}
                     \cup Answered

\* C2: K concurrent requests to / leave active_users_total exactly K higher
\* (it always equals the number of / requests past the increment), and no
\* counter value ever decreases.
C2_NoLostUpdates ==
    /\ [](value[ACTIVE_USERS]
            = Cardinality({ r \in Requests : HomePastActiveUsers(r) }))
    /\ [][\A k \in MetricKeys : value'[k] >= value[k]]_vars

C2_Witness ==
    /\ \A r \in Requests : req[r].route = "/" /\ req[r].pc = "responded"
    /\ value[ACTIVE_USERS] = Cardinality(Requests)
    /\ Cardinality(Requests) >= 2

\* C3 (as stated): once the /crash view has called sys.exit(1) the process
\* is dead, with a non-zero exit status.
C3_CrashEndsProcess ==
    \A r \in Requests :
      (req[r].route = "/crash" /\ req[r].pc = "dropped")
        => (~alive /\ exit_status # 0)

\* C4 (as stated): exactly `threads` workers are started and the response
\* comes at least `duration` seconds after the request, for every integer
\* threads and duration.
C4_ThreadsWorkersAlways ==
    \A r \in Requests :
      (req[r].route = "/cpu-load" /\ req[r].pc = "responded")
        => /\ Len(req[r].workers) = Threads(r)
           /\ req[r].elapsed >= Duration(r)

\* C4 (amended): exactly max(0, threads) workers are started, a worker ends
\* only when its end time has come, the response is produced only after all
\* workers of the request have finished, and with threads >= 1 that is at
\* least `duration` seconds after the request was issued.
C4_WorkersJoined ==
    \A r \in Requests :
      req[r].route = "/cpu-load" =>
        /\ req[r].pc \in {"cpu_join"} \cup Answered
             => Len(req[r].workers) = (IF Threads(r) > 0 THEN Threads(r) ELSE 0)
        /\ \A i \in DOMAIN req[r].workers :
             req[r].workers[i].pc = "finished"
               => now >= req[r].workers[i].end_time
        /\ req[r].pc \in Answered
             => \A i \in DOMAIN req[r].workers : req[r].workers[i].pc = "finished"
        /\ (req[r].pc \in Hooked /\ Threads(r) >= 1)
             => req[r].elapsed >= Duration(r)

C4_Witness ==
    \E r \in Requests :
      /\ req[r].route = "/cpu-load"
      /\ req[r].pc = "responded"
      /\ Threads(r) = 2
      /\ Duration(r) = 1
      /\ req[r].elapsed >= 1

Blocked(r) ==
    \/ req[r].pc = "sleeping" /\ now < req[r].wake
    \/ /\ req[r].pc = "cpu_join"
       /\ req[r].joined < Len(req[r].workers)
       /\ ~Joinable(req[r].workers[req[r].joined + 1])

\* C5: while a /slow request sleeps or a /cpu-load request waits for its
\* workers it holds no lock, and another request is accepted and served.
C5_NonBlocking ==
    \A r \in Requests :
      Blocked(r) =>
        /\ \A k \in MetricKeys : lock[k] # r
        /\ \A q \in Requests \ {r} :
             /\ (req[q].pc = "new" /\ \A p \in Requests : p < q => req[p].pc # "new")
                  => ENABLED Accept(q, CoreInputs)
             /\ req[q].pc = "before_request" => ENABLED before_request(q)
             /\ (req[q].pc = "dispatch" /\ req[q].route = "/health")
                  => ENABLED health_check(q)
             /\ req[q].pc = "after_request" => ENABLED after_request(q)

C5_Witness ==
    \E r, q \in Requests :
      /\ Blocked(r)
      /\ req[r].route = "/cpu-load"
      /\ req[q].route = "/health"
      /\ req[q].pc = "responded"

Unparsable(r, key) == key \in DOMAIN req[r].args /\ ~IsIntLiteral(req[r].args[key])

\* C6 (as stated): an unparsable delay, duration or threads value has the
\* default in effect, and no value of these parameters gives an error
\* response.
C6_NeverAnError ==
    \A r \in Requests :
      req[r].route \in {"/slow", "/cpu-load"} =>
        /\ Unparsable(r, "delay") => Delay(r) = DefaultDelay
        /\ Unparsable(r, "duration") => Duration(r) = DefaultDuration
        /\ Unparsable(r, "threads") => Threads(r) = DefaultThreads
        /\ req[r].pc \in Answered \cup Terminal => req[r].status = 200

\* C7 (as stated): a request whose view raises gets a 500 response that
\* after_request records, and the process stays alive.
C7_ErrorRecorded ==
    \A r \in Requests :
      (Raises(r) /\ req[r].pc \in Terminal)
        => (alive /\ req[r].status = 500 /\ req[r].pc = "responded")

Recorded500(label) ==
    { r \in Requests : /\ req[r].pc = "responded"
                       /\ req[r].status = 500
                       /\ EndpointLabel(req[r].route) = label }

\* C7 (amended): a request whose view raises gets a 500 response and the
\* process stays alive; with debug off the response passes through
\* after_request and is counted under status 500, with debug on the debugger
\* answers and after_request does not run.
C7_ErrorLocal ==
    /\ alive
    /\ \A r \in Requests :
         (Raises(r) /\ req[r].pc \in Terminal)
           => /\ req[r].status = 500
              /\ req[r].pc = (IF debug THEN "debugger_responded" ELSE "responded")
    /\ \A p \in Routes :
         value[REQUEST_COUNT("GET", EndpointLabel(p), 500)]
           = Cardinality(Recorded500(EndpointLabel(p)))

C7_Witness ==
    /\ ~debug
    /\ req[1].route = "/system" /\ req[1].sys_fail
    /\ req[1].pc = "responded" /\ req[1].status = 500
    /\ req[2].route = "/health"
    /\ req[2].pc = "responded" /\ req[2].status = 200
    /\ value[REQUEST_COUNT("GET", "system_info", 500)] = 1

SlowPastInc(r) ==
    /\ req[r].route = "/slow"
    /\ req[r].pc \in {"slow_sleep", "sleeping"} \cup Answered \cup Terminal

\* C8: a /slow response comes no earlier than `delay` seconds after the
\* request, a delay of 0 does not wait, and business_events_total
\* {slow_request} already counts a request while it sleeps.
C8_SlowTiming ==
    /\ \A r \in Requests :
         req[r].route = "/slow" =>
           /\ (req[r].pc \in Hooked /\ req[r].status = 200)
                => req[r].elapsed >= Delay(r)
           /\ (req[r].pc = "sleeping" /\ Delay(r) = 0) => ENABLED SlowWake(r)
    /\ value[CUSTOM_BUSINESS_METRIC(SlowEvent)]
         = Cardinality({ r \in Requests : SlowPastInc(r) })

C8_Witness ==
    \E r, q \in Requests :
      /\ req[r].route = "/slow"
      /\ req[r].pc = "sleeping"
      /\ now < req[r].wake
      /\ req[q].route = "/metrics"
      /\ req[q].pc = "dispatch"
      /\ value[CUSTOM_BUSINESS_METRIC(SlowEvent)] >= 1

Reports(r, field) ==
    /\ req[r].status = 200
    /\ \/ req[r].route \in {"/", "/info"}
       \/ req[r].route = "/health" /\ field = "version"

\* C9 (as stated): name, version and environment name are the same in every
\* response of one process lifetime, whatever happens to the environment.
C9_ConfigSnapshot ==
    \A r, q \in Requests :
      \A field \in {"name", "version", "environment"} :
        (Reports(r, field) /\ Reports(q, field))
          => req[r].body[field] = req[q].body[field]

BetweenIncrements(r) ==
    /\ req[r].route = "/"
    /\ req[r].pc \in {"home_page_view", "home_page_view_locked"}

PageViews == value[CUSTOM_BUSINESS_METRIC("page_view")]

\* C10: active_users_total and business_events_total{page_view} are changed
\* only by the / view; their difference is between 0 and the number of /
\* requests between the two increments, and 0 when no / request is in flight.
C10_PageViewsPaired ==
    /\ [] /\ PageViews <= value[ACTIVE_USERS]
          /\ value[ACTIVE_USERS] - PageViews
               <= Cardinality({ r \in Requests : BetweenIncrements(r) })
          /\ (\A r \in Requests : req[r].route = "/" => ~InFlight(r))
               => value[ACTIVE_USERS] = PageViews
    /\ [][ (value'[ACTIVE_USERS] # value[ACTIVE_USERS] \/ PageViews' # PageViews)
             => \E r \in Requests :
                  /\ req[r].route = "/"
                  /\ req'[r].pc # req[r].pc ]_vars

C10_Witness ==
    \E r, q \in Requests :
      /\ BetweenIncrements(r)
      /\ req[q].route = "/crash"
      /\ req[q].pc = "dropped"
      /\ value[ACTIVE_USERS] = PageViews + 1

====
